---- MODULE Spec2Model ----
(***************************************************************************)
(* Model of the page objects and the Util helpers of the Book Store e2e    *)
(* suite (src/cypress/support/BookStore/BookStorePage.js).                 *)
(*                                                                         *)
(* The specifications share the variables:                                 *)
(*   SpecUtil  - the Util class: calls of getRandonPassword and            *)
(*               getRandonCode with every modelled draw of Math.random().  *)
(*   Spec      - HomePage.validateDetailBook running on the command queue  *)
(*               of the browser runtime, against a DOM that changes.       *)
(*   FairSpec  - Spec with the runtime's event loop never stopping.        *)
(*                                                                         *)
(* Strings are sequences of one-character strings, so that slice,          *)
(* substring, length and concatenation are computed as the code does.      *)
(***************************************************************************)
EXTENDS Integers, Sequences, FiniteSets, TLC

(***************************************************************************)
(* Bounds of the model.                                                    *)
(***************************************************************************)
\* Math.random() is modelled as k / 2^RandomBits, k in 0 .. 2^RandomBits - 1:
\* doubles of [0,1) whose base-36 expansion is exact and finite.
RandomBits == 13
\* getRandonCode draws from CodeGrid evenly spaced values of that grid, plus
\* the largest one.
CodeGrid == 7
\* Largest explicit argument given to getRandonCode.
MaxTamanho == 3
\* Largest number of calls of inputNameBook in a row.
MaxCalls == 2
\* getRandomPhone is also run with the TopDraws largest doubles below 1,
\* 1 - j / 2^53 for j in 1 .. TopDraws.
TopDraws == 3

RECURSIVE Pow2(_)
Pow2(n) == IF n = 0 THEN 1 ELSE 2 * Pow2(n - 1)

RandomDen == Pow2(RandomBits)
\* every modelled value of Math.random(), as a numerator over RandomDen
RandomDraws == 0 .. (RandomDen - 1)
\* the draws getRandonCode is run with
CodeDraws == {(k * RandomDen) \div CodeGrid : k \in 0 .. (CodeGrid - 1)} \cup {RandomDen - 1}

(***************************************************************************)
(* JavaScript string primitives used by Util.                              *)
(***************************************************************************)
Digits36 ==
  << "0","1","2","3","4","5","6","7","8","9","a","b","c","d","e","f","g","h",
     "i","j","k","l","m","n","o","p","q","r","s","t","u","v","w","x","y","z" >>

Range(s) == {s[j] : j \in 1 .. Len(s)}

\* the digits after the radix point of n/d in base 36 (n < d, d a power of two)
RECURSIVE FracDigits36(_, _)
FracDigits36(n, d) ==
  IF n = 0 THEN << >>
  ELSE << Digits36[((n * 36) \div d) + 1] >> \o FracDigits36((n * 36) % d, d)

\* Number.prototype.toString(36) of n/d, 0 <= n/d < 1
ToString36(n, d) ==
  IF n = 0 THEN << "0" >> ELSE << "0", "." >> \o FracDigits36(n, d)

\* String.prototype.slice(start) for a negative start: the last -start
\* characters, or the whole string when it is shorter
SliceFromEnd(s, count) ==
  LET from == IF Len(s) > count THEN Len(s) - count ELSE 0
  IN  SubSeq(s, from + 1, Len(s))

\* String.prototype.substring(a, b) for 0 <= a <= b: indices clamp to the length
Substring(s, a, b) ==
  LET lo == IF a > Len(s) THEN Len(s) ELSE a
      hi == IF b > Len(s) THEN Len(s) ELSE b
  IN  SubSeq(s, lo + 1, hi)

(***************************************************************************)
(* Util.getRandonPassword                                                  *)
(***************************************************************************)
\* a radix toString rejects
RadixBeyond == 36 + 1

\* the radix handed to toString
Radix == 36

\* Number.prototype.toString(radix) throws a RangeError unless the radix is
\* an integer from 2 to 36
RadixAccepted == Radix \in 2 .. 36

getRandonPassword(n) == SliceFromEnd(ToString36(n, RandomDen), 7)

(***************************************************************************)
(* Util.getRandonCode                                                      *)
(***************************************************************************)
\* the alphabet with "X" doubled in place of "Y"
letrasDoubledX ==
  << "0","1","2","3","4","5","6","7","8","9",
     "A","B","C","D","E","F","G","H","I","J","K","L","M","N","O","P","Q","R",
     "S","T","U","V","W","X","X","Z",
     "a","b","c","d","e","f","g","h","i","j","k","l","m","n","o","p","q","r",
     "s","t","u","v","w","x","y","z" >>

letras ==
  << "0","1","2","3","4","5","6","7","8","9",
     "A","B","C","D","E","F","G","H","I","J","K","L","M","N","O","P","Q","R",
     "S","T","U","V","W","X","T","Z",
     "a","b","c","d","e","f","g","h","i","k","l","m","n","o","p","q","r",
     "s","t","u","v","w","x","y","z" >>

\* the default value of the parameter tamanho
DefaultTamanho == 6

\* Math.ceil in place of Math.floor
RnumCeil(n) == ((n * Len(letras)) + RandomDen - 1) \div RandomDen

\* Math.floor(Math.random() * letras.length)
Rnum(n) == (n * Len(letras)) \div RandomDen

(***************************************************************************)
(* Util.getRandomPhone. 99999999999 does not fit the integers of TLC, so   *)
(* the numbers of this function are written in base 10000, most            *)
(* significant limb first; only the first limb may exceed 9999.            *)
(***************************************************************************)
\* 99999999999
PhoneRange == << 999, 9999, 9999 >>

\* x * k, the limbs not yet carried
MulSmall(x, k) == [j \in DOMAIN x |-> x[j] * k]

\* carries (and borrows) from each limb into the next more significant one
RECURSIVE Normalize(_)
Normalize(x) ==
  IF Len(x) <= 1 THEN x
  ELSE LET n == Len(x)
           front == SubSeq(x, 1, n - 1)
       IN  Append(Normalize([front EXCEPT ![n - 1] = @ + (x[n] \div 10000)]), x[n] % 10000)

\* long division of x by d with the remainder r carried in
RECURSIVE DivRec(_, _, _)
DivRec(x, d, r) ==
  IF x = << >> THEN << >>
  ELSE LET v == r * 10000 + Head(x)
       IN  << v \div d >> \o DivRec(Tail(x), d, v % d)

\* the integer part of x / d
DivSmall(x, d) == DivRec(x, d, 0)

\* x + k
AddSmall(x, k) == Normalize([x EXCEPT ![Len(x)] = @ + k])

\* the value of x, for an x that fits
RECURSIVE IntOf(_)
IntOf(x) == IF x = << >> THEN 0 ELSE x[Len(x)] + 10000 * IntOf(SubSeq(x, 1, Len(x) - 1))

\* k * 99999999999
Scaled(k) == Normalize(MulSmall(PhoneRange, k))

\* The product (1 - j / 2^53) * 99999999999 lies in [2^36, 2^37), where a
\* double has steps of 2^-16: it is 99999999999 less j * 99999999999 / 2^53,
\* rounded to the nearest step. RoundOff(j) is what is taken off, in steps:
\* j * 99999999999 / 2^37 rounded to the nearest integer, which is
\* (floor(j * 99999999999 / 2^36) + 1) div 2; no tie arises, 99999999999
\* being odd and j below 2^36.
RoundOff(j) ==
  (IntOf(DivSmall(DivSmall(DivSmall(Scaled(j), Pow2(12)), Pow2(12)), Pow2(12))) + 1) \div 2

\* the steps of 2^-16 counted in s, rounded up to whole units
StepsUp(s) == (s + Pow2(16) - 1) \div Pow2(16)

\* every modelled value of Math.random() for getRandomPhone: n >= 0 is
\* n / RandomDen, n < 0 is 1 + n / 2^53
PhoneDraws == RandomDraws \cup {0 - j : j \in 1 .. TopDraws}

\* the + 1 is missing
getRandomPhoneNoPlusOne(n) ==
  IF n >= 0 THEN DivSmall(Scaled(n), RandomDen)
  ELSE AddSmall(PhoneRange, 0 - StepsUp(RoundOff(0 - n)))

\* Math.floor(Math.random() * 99999999999 + 1) in double arithmetic. For a
\* draw n / RandomDen the product has at most 37 + RandomBits bits and is
\* exact, as is the sum, so the result is floor(n * 99999999999 / RandomDen)
\* + 1. For a draw 1 - j / 2^53 the product is rounded (RoundOff); the sum
\* with 1 stays below 2^37 and is exact; the floor takes off the steps
\* rounded up to whole units.
getRandomPhone(n) ==
  IF n >= 0 THEN AddSmall(DivSmall(Scaled(n), RandomDen), 1)
  ELSE AddSmall(PhoneRange, 1 - StepsUp(RoundOff(0 - n)))

(***************************************************************************)
(* Util.screenshot                                                         *)
(***************************************************************************)
\* the years, hours, minutes and seconds the clock is read at; every month
\* and every day of these years is read
ClockYears == {1000, 2024, 9999}
ClockHours == {0, 9, 10, 23}
ClockMinutes == {0, 9, 10, 59}
ClockSeconds == {0, 9, 10, 59}

\* the days of month mo (0 is January, as getMonth() counts) of year y
DaysIn(y, mo) ==
  CASE mo = 1 -> IF (y % 4 = 0 /\ y % 100 # 0) \/ y % 400 = 0 THEN 29 ELSE 28
    [] mo \in {3, 5, 8, 10} -> 30
    [] OTHER -> 31

\* new Date(): the fields the getters of a Date return
Clocks ==
  {c \in [y : ClockYears, mo : 0 .. 11, d : 1 .. 31, h : ClockHours, mi : ClockMinutes,
          s : ClockSeconds] : c.d <= DaysIn(c.y, c.mo)}

\* no Date has been read
NoDate == [y |-> 0, mo |-> 0, d |-> 0, h |-> 0, mi |-> 0, s |-> 0]

\* the readings a later call of screenshot is compared with: 11 January and
\* 1 November of one year, and the last second of 9999
MarkedClocks ==
  { [y |-> 2024, mo |-> 0, d |-> 11, h |-> 0, mi |-> 0, s |-> 0],
    [y |-> 2024, mo |-> 10, d |-> 1, h |-> 0, mi |-> 0, s |-> 0],
    [y |-> 9999, mo |-> 11, d |-> 31, h |-> 23, mi |-> 59, s |-> 59] }

\* no call of screenshot is remembered
NoShot == [clock |-> NoDate, name |-> << >>]

\* String(n) for an integer n >= 0
RECURSIVE String(_)
String(n) ==
  IF n < 10 THEN << Digits36[n + 1] >>
  ELSE Append(String(n \div 10), Digits36[(n % 10) + 1])

\* the padding is left out
padStartNone(str, n, c) == str

\* str.padStart(n, c) for a one-character c
RECURSIVE padStart(_, _, _)
padStart(str, n, c) == IF Len(str) >= n THEN str ELSE padStart(<< c >> \o str, n, c)

\* the hour is written on the 12-hour clock
dateTimeCurrentTwelveHour(c) ==
  LET d     == padStart(String(c.d), 2, "0")
      month == padStart(String(c.mo + 1), 2, "0")
      y     == c.y
      hh    == padStart(String(c.h % 12), 2, "0")
      mm    == padStart(String(c.mi), 2, "0")
      ss    == padStart(String(c.s), 2, "0")
  IN  String(y) \o << "-" >> \o month \o << "-" >> \o d \o << "_" >> \o hh
        \o << "-" >> \o mm \o << "-" >> \o ss

\* `${y}-${month}-${d}_${hh}-${mm}-${ss}` on the Date c: lines 79-87
dateTimeCurrent(c) ==
  LET d     == padStart(String(c.d), 2, "0")
      month == padStart(String(c.mo + 1), 2, "0")
      y     == c.y
      hh    == padStart(String(c.h), 2, "0")
      mm    == padStart(String(c.mi), 2, "0")
      ss    == padStart(String(c.s), 2, "0")
  IN  String(y) \o << "-" >> \o month \o << "-" >> \o d \o << "_" >> \o hh
        \o << "-" >> \o mm \o << "-" >> \o ss

\* the screenshot is never taken
ScreenshotCallsNone(c) == << >>

\* the calls of cy.screenshot the body makes on the Date c: line 89
ScreenshotCalls(c) == << dateTimeCurrent(c) >>

(***************************************************************************)
(* The page: what the document shows of the things the methods look for,   *)
(* four on the detail page (validateDetailBook) and three on the list page *)
(* (validateElementsScreen). Each is absent, rendered but hidden, or        *)
(* visible. While the document is being re-rendered it is in an invalid    *)
(* state and a query of it throws.                                         *)
(***************************************************************************)
ElemStates == {"absent", "hidden", "visible"}

\* what validateDetailBook looks for
DetailKeys == {"title", "author", "isbn", "digits"}
\* what validateElementsScreen looks for: the text "Book Store",
\* el.LIST.INPUT_BOOK and el.LIST.TABLE_BOOKS
ListKeys == {"bookStore", "input", "table"}

\* the document is the detail page: nothing of the list page is in it
OnDetailPage(d) == \A k \in ListKeys : d[k] = "absent"
\* the document is the list page
OnListPage(d) == \A k \in DetailKeys : d[k] = "absent"

\* a method is run on the page it is written for
DomStates ==
  {d \in [title : ElemStates, author : ElemStates, isbn : ElemStates, digits : ElemStates,
          bookStore : ElemStates, input : ElemStates, table : ElemStates,
          rendering : BOOLEAN] : OnDetailPage(d) \/ OnListPage(d)}

(***************************************************************************)
(* PollingAssertion: retry the query and the predicate until the predicate *)
(* holds or the timeout is exceeded.                                       *)
(***************************************************************************)
\* time between two polls, in ms
PollInterval == 2000
\* timeout of a check that names none, in ms
DefaultTimeout == 4000

\* what a poll gets when the query, or the predicate on a stale element,
\* throws instead of returning
Thrown == {"throws", "detached"}

\* the predicate p over the query result r: r is "absent" (no element),
\* "hidden", "visible", "detached" (an element no longer in the document) or
\* "throws" (the query threw); a throw satisfies no predicate
Satisfies(p, r) ==
  CASE p = "be.visible" -> r = "visible"
    [] p = "exist"      -> r \in {"hidden", "visible"}
    [] p = "none"       -> r \notin Thrown

\* the check never gives up
PollVerdictForever(ok, e, t) == IF ok THEN "success" ELSE "sleep"

\* the check gives up when the next poll would not fall before the timeout
PollVerdictEarly(ok, e, t) ==
  IF ok THEN "success" ELSE IF e + PollInterval >= t THEN "fail" ELSE "sleep"

\* the timeout is looked at before the query is run
PollVerdictTimeoutFirst(ok, e, t) ==
  IF e > t THEN "fail" ELSE IF ok THEN "success" ELSE "sleep"

\* one round of the loop, at elapsed time e of a check with timeout t, the
\* predicate having evaluated to ok on the result of the query just run
PollVerdict(ok, e, t) ==
  IF ok THEN "success" ELSE IF e > t THEN "fail" ELSE "sleep"

\* the exception of the query goes to the caller at once
OnThrowPropagate(e, t) == "fail"

\* a poll whose query throws counts as one whose predicate is not satisfied
OnThrow(e, t) == PollVerdict(FALSE, e, t)

\* the retry comes two intervals later
NextPollAtDouble(e) == e + 2 * PollInterval

\* sleep one interval: the elapsed time of the next poll after the one at e
NextPollAt(e) == e + PollInterval

\* the error raised when the timeout is exceeded
TimeoutExceeded(cmd, p, r) ==
  [kind |-> "TimeoutExceeded", cmd |-> cmd, pred |-> p, last |-> r]

NoError == [kind |-> "none", cmd |-> "none", pred |-> "none", last |-> "none"]

(***************************************************************************)
(* HomePage.validateDetailBook                                             *)
(***************************************************************************)
\* { timeout: 10000 }
TitleTimeout == 10000

\* the commands the body puts on the queue, in order: lines 32, 33, 36
validateDetailBook == << "title", "author", "isbn", "then" >>

(***************************************************************************)
(* HomePage.validateElementsScreen                                         *)
(***************************************************************************)
\* the table is looked for before the search input
validateElementsScreenTableFirst == << "bookStore", "table", "input" >>

\* the commands the body puts on the queue, in order: lines 11, 12, 13
validateElementsScreen == << "bookStore", "input", "table" >>

(***************************************************************************)
(* HomePage.inputNameBook                                                  *)
(***************************************************************************)
\* the names inputNameBook is called with: non-empty, of plain characters
Names == {<< "a" >>, << "b" >>, << "a", "b" >>}

\* clear() is left out of the chain
inputNameBookNoClear == << "getInput", "type" >>

\* the commands the body puts on the queue, in order: line 17
inputNameBook == << "getInput", "clear", "type" >>

\* the content of the input once command cmd has acted on content v:
\* clear() empties it, type(name) appends name
Effect(cmd, v, nm) ==
  CASE cmd = "clear" -> << >>
    [] cmd = "type"  -> v \o nm
    [] OTHER         -> v

\* the things of the document method m looks for
KeysOf(m) ==
  CASE m = "validateElementsScreen" -> ListKeys
    [] m = "inputNameBook"          -> {"input"}
    [] OTHER                        -> DetailKeys

\* every timeout is the title's
TimeoutOfAllLong(cmd) == TitleTimeout

\* the timeout each command is given
TimeoutOf(cmd) == IF cmd = "title" THEN TitleTimeout ELSE DefaultTimeout

\* should('exist') in place of should('be.visible') on the title
PredOfTitleExist(cmd, ex) ==
  CASE cmd = "title" -> "exist"
    [] cmd = "isbn"  -> IF ex THEN "exist" ELSE "none"
    [] cmd \in {"table", "getInput"} -> "exist"
    [] OTHER         -> "be.visible"

\* the digit pattern is located but not asserted visible
PredOfDigitsUnasserted(cmd, ex) ==
  CASE cmd \in {"isbn", "digits"} -> IF ex THEN "exist" ELSE "none"
    [] cmd \in {"table", "getInput"} -> "exist"
    [] OTHER                       -> "be.visible"

\* the ISBN-label query yields an empty set when nothing matches, whatever
\* the runtime
PredOfIsbnLenient(cmd, ex) ==
  CASE cmd = "isbn"  -> "none"
    [] cmd \in {"table", "getInput"} -> "exist"
    [] OTHER         -> "be.visible"

\* the predicate each command retries on. The ISBN-label query has no
\* should(): it carries the existence check of the locate-by-text query when
\* the runtime has one (ex), and none otherwise. The table has
\* should('exist'), every other command should('be.visible').
PredOf(cmd, ex) ==
  CASE cmd = "isbn"  -> IF ex THEN "exist" ELSE "none"
    [] cmd \in {"table", "getInput"} -> "exist"
    [] OTHER         -> "be.visible"

\* what the query of each command yields on the document d; cy.wrap($el)
\* yields the element captured by the ISBN-label query, cap telling whether
\* that element is still in the document
QueryOf(cmd, d, cap) ==
  CASE cmd = "wrap"   -> IF cap = "live" THEN d.isbn ELSE "detached"
    [] d.rendering    -> "throws"
    [] cmd = "title"  -> d.title
    [] cmd = "author" -> d.author
    [] cmd = "isbn"   -> d.isbn
    [] cmd = "digits" -> d.digits
    [] cmd \in {"getInput", "clear", "type"} -> d.input
    [] OTHER          -> d[cmd]

\* the ISBN-label query is given a failure handler that swallows its error
CatchesIsbn(cmd) == cmd = "isbn"

\* whether the page object catches the failure of command cmd: no chain of
\* the class has a failure handler and no method has a try/catch
Catches(cmd) == FALSE

\* $el.length
Length(e) == IF e = "absent" THEN 0 ELSE 1

\* the else is missing: the digit pattern is asserted in every case
CallbackNoElse(e) ==
  IF Length(e) # 0 THEN << "wrap", "digits" >> ELSE << "digits" >>

\* the callback of then(): lines 37-41
Callback(e) == IF Length(e) # 0 THEN << "wrap" >> ELSE << "digits" >>

VARIABLES
  fn,         \* the Util function being run: "none" when no call is active
  upc,        \* "idle", "loop" (inside the for of getRandonCode), "returned",
              \* or "threw" when the call ended in an exception
  rnd,        \* the last value of Math.random(), as a numerator over RandomDen
  arg,        \* the argument list of the call: << >> or << length >>
  tamanho,    \* getRandonCode: the parameter after defaulting
  i,          \* getRandonCode: the loop counter
  rnum,       \* getRandonCode: the index drawn in the last iteration
  aleatorio,  \* getRandonCode: the string built so far
  ret,        \* the value returned by the last call: a string, the limbs
              \* of a number, or << >> when there is none
  retType,    \* typeof that value: "string", "number", "undefined"; "none"
              \* while no call has returned
  clock,      \* screenshot: dateFull, the Date read at the start of the call
  shots,      \* the filenames handed to cy.screenshot during the call
  lastShot,   \* history, read by the properties only: the reading and the
              \* filename of the call before this one, when that was a call
              \* of screenshot at one of MarkedClocks
  \* ---- the page and the runtime
  existing,   \* the locate-by-text query of the runtime fails on no match
  method,     \* the method of HomePage the test has called, or "none"
  dom,        \* the document
  pc,         \* "idle", "running", "passed", "failed"
  queue,      \* the commands still to run, the current one first
  phase,      \* of the current check: "poll", "sleep" or "yield" (succeeded)
  elapsed,    \* ms since the current check began
  timeout,    \* timeout of the current check
  captured,   \* the element the ISBN-label query yielded: "none", "live", "detached"
  subject,    \* the result the last successful check carries
  el,         \* $el, the argument the callback was entered with
  err,        \* the error that ended the run
  value,      \* the content of the search input
  name,       \* the argument of inputNameBook, << >> outside its calls
  \* ---- history, read by the properties only
  log,        \* the commands begun so far, in order, each with its timeout
  okCmds,     \* the commands that succeeded so far, in order
  nSat,       \* polls of the current check that saw a satisfying result
  threw,      \* a poll of the current check met a throw
  trueSince,  \* elapsed time since which the current predicate holds, or -1
  hist,       \* what the document showed since the call
  calls,      \* the calls of inputNameBook made so far
  prior       \* the content of the search input at the last such call

utilVars ==
  << fn, upc, rnd, arg, tamanho, i, rnum, aleatorio, ret, retType, clock, shots, lastShot >>

inputVars == << value, name, calls, prior >>

pageVars == << inputVars, existing, method, dom, pc, queue, phase, elapsed, timeout, captured,
               subject, el, err, log, okCmds, nSat, threw, trueSince, hist >>

vars == << utilVars, pageVars >>

UtilInit ==
  /\ fn = "none"
  /\ upc = "idle"
  /\ rnd = 0
  /\ arg = << >>
  /\ tamanho = 0
  /\ i = 0
  /\ rnum = 0
  /\ aleatorio = << >>
  /\ ret = << >>
  /\ retType = "none"
  /\ clock = NoDate
  /\ shots = << >>
  /\ lastShot = NoShot

\* a test calls util.getRandonPassword()
GetRandonPassword ==
  /\ upc = "idle"
  /\ \E n \in RandomDraws :
       /\ rnd' = n
       /\ ret' = IF RadixAccepted THEN getRandonPassword(n) ELSE << >>
  /\ retType' = IF RadixAccepted THEN "string" ELSE "none"
  /\ fn' = "getRandonPassword"
  /\ upc' = IF RadixAccepted THEN "returned" ELSE "threw"
  /\ lastShot' = NoShot
  /\ UNCHANGED << arg, tamanho, i, rnum, aleatorio, clock, shots >>
  /\ UNCHANGED pageVars

\* a test calls util.getRandomPhone(): lines 58-60
GetRandomPhone ==
  /\ upc = "idle"
  /\ \E n \in PhoneDraws :
       /\ rnd' = n
       /\ ret' = getRandomPhone(n)
  /\ retType' = "number"
  /\ fn' = "getRandomPhone"
  /\ upc' = "returned"
  /\ lastShot' = NoShot
  /\ UNCHANGED << arg, tamanho, i, rnum, aleatorio, clock, shots >>
  /\ UNCHANGED pageVars

\* a test calls util.screenshot(): lines 76-90. The body reads the clock
\* once, hands the formatted name to cy.screenshot and ends without a return
\* statement.
Screenshot ==
  /\ upc = "idle"
  /\ \E c \in Clocks :
       /\ clock' = c
       /\ shots' = shots \o ScreenshotCalls(c)
  /\ ret' = << >>
  /\ retType' = "undefined"
  /\ fn' = "screenshot"
  /\ upc' = "returned"
  /\ UNCHANGED << rnd, arg, tamanho, i, rnum, aleatorio, lastShot >>
  /\ UNCHANGED pageVars

\* a test calls util.getRandonCode(a) or util.getRandonCode(): lines 66-68
GetRandonCodeCall ==
  /\ upc = "idle"
  /\ \E a \in {<< >>} \cup {<< n >> : n \in 0 .. MaxTamanho} :
       /\ arg' = a
       /\ tamanho' = IF a = << >> THEN DefaultTamanho ELSE a[1]
  /\ fn' = "getRandonCode"
  /\ upc' = "loop"
  /\ i' = 0
  /\ aleatorio' = << >>
  /\ lastShot' = NoShot
  /\ UNCHANGED << rnd, rnum, ret, retType, clock, shots >>
  /\ UNCHANGED pageVars

\* one iteration of the for loop: lines 69-72
GetRandonCodeIter ==
  /\ upc = "loop"
  /\ i < tamanho
  /\ \E n \in CodeDraws :
       /\ rnd' = n
       /\ rnum' = Rnum(n)
       /\ aleatorio' = aleatorio \o Substring(letras, Rnum(n), Rnum(n) + 1)
  /\ i' = i + 1
  /\ UNCHANGED << fn, upc, arg, tamanho, ret, retType, clock, shots, lastShot >>
  /\ UNCHANGED pageVars

\* the loop condition fails and the string is returned: line 73
GetRandonCodeReturn ==
  /\ upc = "loop"
  /\ ~(i < tamanho)
  /\ ret' = aleatorio
  /\ retType' = "string"
  /\ upc' = "returned"
  /\ UNCHANGED << fn, rnd, arg, tamanho, i, rnum, aleatorio, clock, shots, lastShot >>
  /\ UNCHANGED pageVars

\* the caller has taken the value and the locals of the call are gone; the
\* singleton has no fields, so it is as it was before the call (lastShot is
\* the observer's note of the call, not state of the program)
UtilDone ==
  /\ upc = "returned"
  /\ fn' = "none"
  /\ upc' = "idle"
  /\ rnd' = 0
  /\ arg' = << >>
  /\ tamanho' = 0
  /\ i' = 0
  /\ rnum' = 0
  /\ aleatorio' = << >>
  /\ ret' = << >>
  /\ retType' = "none"
  /\ clock' = NoDate
  /\ shots' = << >>
  /\ lastShot' = IF fn = "screenshot" /\ clock \in MarkedClocks
                  THEN [clock |-> clock, name |-> shots[1]]
                  ELSE NoShot
  /\ UNCHANGED pageVars

(***************************************************************************)
(* The runtime running the command queue of validateDetailBook.            *)
(***************************************************************************)
\* thing k is visible in document d and d is in a state to be queried
Shows(d, k) == ~d.rendering /\ d[k] = "visible"

\* what the document d shows at the call
HistAt(d) ==
  [ titleSeen    |-> d.title = "visible",
    isbnSeen     |-> d.isbn # "absent",
    digitsSeen   |-> d.digits # "absent",
    titleAlways  |-> Shows(d, "title"),
    authorAlways |-> Shows(d, "author"),
    digitsAlways |-> Shows(d, "digits") ]

\* the same after the document has become d
HistUpd(h, d) ==
  [ titleSeen    |-> h.titleSeen \/ d.title = "visible",
    isbnSeen     |-> h.isbnSeen \/ d.isbn # "absent",
    digitsSeen   |-> h.digitsSeen \/ d.digits # "absent",
    titleAlways  |-> h.titleAlways /\ Shows(d, "title"),
    authorAlways |-> h.authorAlways /\ Shows(d, "author"),
    digitsAlways |-> h.digitsAlways /\ Shows(d, "digits") ]

\* the page and the runtime before any call, on document d
PageRest(d, ex) ==
  /\ existing = ex
  /\ method = "none"
  /\ dom = d
  /\ pc = "idle"
  /\ queue = << >>
  /\ phase = "poll"
  /\ elapsed = 0
  /\ timeout = 0
  /\ captured = "none"
  /\ subject = "none"
  /\ el = "none"
  /\ err = NoError
  /\ log = << >>
  /\ okCmds = << >>
  /\ nSat = 0
  /\ threw = FALSE
  /\ trueSince = -1
  /\ hist = HistAt(d)
  /\ value = << >>
  /\ name = << >>
  /\ calls = 0
  /\ prior = << >>

PageInit == \E d \in DomStates, ex \in BOOLEAN : PageRest(d, ex)

\* the current command holds on document d with the captured element cap
HoldsNow(q, d, cap) ==
  /\ q # << >>
  /\ Head(q) # "then"
  /\ Satisfies(PredOf(Head(q), existing), QueryOf(Head(q), d, cap))

\* the runtime takes the next command of queue q, or ends the run when
\* there is none
Begin(q, cap) ==
  /\ queue' = q
  /\ phase' = "poll"
  /\ elapsed' = 0
  /\ nSat' = 0
  /\ threw' = FALSE
  /\ IF q = << >>
       THEN /\ pc' = "passed"
            /\ timeout' = 0
            /\ log' = log
            /\ trueSince' = -1
       ELSE /\ pc' = "running"
            /\ timeout' = (IF Head(q) = "then" THEN 0 ELSE TimeoutOf(Head(q)))
            /\ log' = (IF Head(q) = "then" THEN log
                       ELSE Append(log, [cmd |-> Head(q), timeout |-> TimeoutOf(Head(q))]))
            /\ trueSince' = (IF HoldsNow(q, dom, cap) THEN 0 ELSE -1)

\* a test calls homePage.validateDetailBook(title): lines 29-43
ValidateDetailBook ==
  /\ pc = "idle"
  /\ OnDetailPage(dom)
  /\ method' = "validateDetailBook"
  /\ Begin(validateDetailBook, captured)
  /\ hist' = HistAt(dom)
  /\ UNCHANGED << existing, dom, captured, subject, el, err, okCmds >>
  /\ UNCHANGED inputVars
  /\ UNCHANGED utilVars

\* a test calls homePage.validateElementsScreen(): lines 9-14
ValidateElementsScreen ==
  /\ pc = "idle"
  /\ OnListPage(dom)
  /\ method' = "validateElementsScreen"
  /\ Begin(validateElementsScreen, captured)
  /\ hist' = HistAt(dom)
  /\ UNCHANGED << existing, dom, captured, subject, el, err, okCmds >>
  /\ UNCHANGED inputVars
  /\ UNCHANGED utilVars

\* the document is described by the things keys alone: nothing else that
\* the model follows is in it
OnlyShows(d, keys) == \A k \in (DetailKeys \cup ListKeys) \ keys : d[k] = "absent"

\* a test calls homePage.inputNameBook(nm), on a fresh page or right after
\* a call of it that passed: lines 16-18
InputNameBook ==
  /\ \/ pc = "idle"
     \/ pc = "passed" /\ method = "inputNameBook"
  /\ calls < MaxCalls
  /\ OnlyShows(dom, KeysOf("inputNameBook"))
  /\ \E nm \in Names : name' = nm
  /\ method' = "inputNameBook"
  /\ calls' = calls + 1
  /\ prior' = value
  /\ Begin(inputNameBook, captured)
  /\ hist' = HistAt(dom)
  /\ UNCHANGED << existing, dom, captured, subject, el, err, okCmds, value >>
  /\ UNCHANGED utilVars

\* the runtime polls the current check: query, predicate, verdict. On
\* success the check yields the result; on timeout the error goes to the
\* page object if it has a handler for the command, and ends the run if not.
Poll ==
  /\ pc = "running"
  /\ Head(queue) # "then"
  /\ phase = "poll"
  /\ LET cmd == Head(queue)
         r   == QueryOf(cmd, dom, captured)
         p   == PredOf(cmd, existing)
         ok  == Satisfies(p, r)
         v   == IF r \in Thrown THEN OnThrow(elapsed, timeout)
                ELSE PollVerdict(ok, elapsed, timeout)
     IN  /\ nSat' = nSat + (IF ok THEN 1 ELSE 0)
         /\ threw' = (threw \/ r \in Thrown)
         /\ CASE v = "success" ->
                   /\ phase' = "yield"
                   /\ subject' = r
                   /\ captured' = IF cmd = "isbn"
                                  THEN (IF r = "absent" THEN "none" ELSE "live")
                                  ELSE captured
                   /\ okCmds' = Append(okCmds, cmd)
                   /\ value' = Effect(cmd, value, name)
                   /\ UNCHANGED << pc, err >>
              [] v = "fail" ->
                   IF Catches(cmd)
                     THEN /\ phase' = "yield"
                          /\ subject' = "absent"
                          /\ UNCHANGED << pc, err, captured, okCmds, value >>
                     ELSE /\ pc' = "failed"
                          /\ err' = TimeoutExceeded(cmd, p, r)
                          /\ UNCHANGED << phase, captured, subject, okCmds, value >>
              [] v = "sleep" ->
                   /\ phase' = "sleep"
                   /\ UNCHANGED << pc, captured, subject, okCmds, err, value >>
  /\ UNCHANGED << existing, method, dom, queue, elapsed, timeout, el, log, trueSince, hist >>
  /\ UNCHANGED << name, calls, prior >>
  /\ UNCHANGED utilVars

\* the sleep of one interval is over
Wake ==
  /\ pc = "running"
  /\ phase = "sleep"
  /\ elapsed' = NextPollAt(elapsed)
  /\ phase' = "poll"
  /\ UNCHANGED << existing, method, dom, pc, queue, timeout, captured, subject, el,
                  err, log, okCmds, nSat, threw, trueSince, hist >>
  /\ UNCHANGED inputVars
  /\ UNCHANGED utilVars

\* the check has yielded: the runtime goes on with the rest of the queue
Advance ==
  /\ pc = "running"
  /\ phase = "yield"
  /\ Begin(Tail(queue), captured)
  /\ UNCHANGED << existing, method, dom, captured, subject, el, err, okCmds, hist >>
  /\ UNCHANGED inputVars
  /\ UNCHANGED utilVars

\* then(($el) => ...): the callback runs on the subject of the ISBN-label
\* query and puts its command in front of the queue: lines 36-42
Then ==
  /\ pc = "running"
  /\ Head(queue) = "then"
  /\ el' = subject
  /\ Begin(Callback(subject) \o Tail(queue), captured)
  /\ UNCHANGED << existing, method, dom, captured, subject, err, okCmds, hist >>
  /\ UNCHANGED inputVars
  /\ UNCHANGED utilVars

\* the changes the application can make to document d in one step: one of
\* the things keys appears, disappears, is hidden or shown, or a
\* re-rendering of the document begins or ends
DomSteps(d, keys) ==
  ({[d EXCEPT ![k] = v] : k \in keys, v \in ElemStates}
     \cup {[d EXCEPT !.rendering = ~d.rendering]}) \ {d}

\* the application changes the document while the test runs, or (rerender)
\* replaces the ISBN-labelled element by a new one in the same state
DomChange ==
  /\ pc = "running"
  /\ phase # "yield"
  /\ \E d \in DomSteps(dom, KeysOf(method)) \cup {dom} :
       /\ d = dom => captured = "live"
       /\ dom' = d
       /\ captured' = IF captured = "live" /\ (d = dom \/ d.isbn = "absent")
                      THEN "detached" ELSE captured
       /\ hist' = HistUpd(hist, d)
       /\ value' = IF d.input = "absent" THEN << >> ELSE value
       /\ trueSince' = IF ~HoldsNow(queue, d, captured') THEN -1
                       ELSE IF trueSince # -1 THEN trueSince ELSE elapsed
  /\ UNCHANGED << existing, method, pc, queue, phase, elapsed, timeout, subject, el,
                  err, log, okCmds, nSat, threw, name, calls, prior >>
  /\ UNCHANGED utilVars

Next ==
  \/ ValidateDetailBook
  \/ ValidateElementsScreen
  \/ InputNameBook
  \/ Poll
  \/ Wake
  \/ Advance
  \/ Then
  \/ DomChange

AllAbsent ==
  [title |-> "absent", author |-> "absent", isbn |-> "absent", digits |-> "absent",
   bookStore |-> "absent", input |-> "absent", table |-> "absent", rendering |-> FALSE]

Init == UtilInit /\ PageInit

Spec == Init /\ [][Next]_vars

\* the event loop of the runtime keeps running the queue: a poll that is due,
\* a sleep that is over, a yielded check and a pending callback are each
\* carried out; the application owes no change of the document
FairSpec ==
  Spec /\ WF_vars(Poll) /\ WF_vars(Wake) /\ WF_vars(Advance) /\ WF_vars(Then)

NextUtil ==
  \/ GetRandomPhone
  \/ GetRandonPassword
  \/ GetRandonCodeCall
  \/ GetRandonCodeIter
  \/ GetRandonCodeReturn
  \/ Screenshot
  \/ UtilDone

InitUtil == UtilInit /\ PageRest(AllAbsent, TRUE)

SpecUtil == InitUtil /\ [][NextUtil]_vars

(***************************************************************************)
(* Properties of validateDetailBook and of PollingAssertion, checked under *)
(* Spec.                                                                   *)
(***************************************************************************)
\* the commands begun so far, in order
LogCmds == [k \in 1 .. Len(log) |-> log[k].cmd]

\* how many times command c was begun
Begun(c) == Cardinality({k \in 1 .. Len(log) : log[k].cmd = c})

Ended == pc \in {"passed", "failed"}

\* C5: the ISBN-label query is issued once; the callback then makes exactly
\* one of the two assertions, the ISBN element when $el is not empty (and the
\* digit-pattern query is never issued), the digit pattern when it is empty;
\* never both, and none before the callback.
C5_ExactlyOneBranch ==
  /\ Begun("isbn") <= 1
  /\ Begun("wrap") + Begun("digits") <= 1
  /\ (el = "none" => Begun("wrap") + Begun("digits") = 0)
  /\ (el # "none" =>
        /\ Begun("isbn") = 1
        /\ Begun("wrap") + Begun("digits") = 1
        /\ (Length(el) # 0 <=> Begun("wrap") = 1)
        /\ (Length(el) = 0 <=> Begun("digits") = 1))

\* C5 witness: the run passed through the ISBN branch, on a runtime whose
\* locate-by-text query fails on no match
C5_Witness ==
  /\ existing
  /\ pc = "passed"
  /\ Length(el) # 0
  /\ LogCmds = << "title", "author", "isbn", "wrap" >>

\* C6: with the title and "Author" visible throughout, no ISBN-labelled
\* element at any time and the digit element visible throughout (on a
\* document that is never being re-rendered), a run that has ended has
\* passed, through the fallback branch.
C6_FallbackPasses ==
  (Ended /\ method = "validateDetailBook" /\ hist.titleAlways /\ hist.authorAlways
     /\ ~hist.isbnSeen /\ hist.digitsAlways) =>
    /\ pc = "passed"
    /\ Length(el) = 0
    /\ Begun("digits") = 1

\* neither an ISBN-labelled element nor a digit element has existed since
\* the call of validateDetailBook
BothEmpty == method = "validateDetailBook" /\ ~hist.isbnSeen /\ ~hist.digitsSeen

\* while both are empty the run has not passed
BothEmptySafe ==
  BothEmpty =>
    /\ pc # "passed"
    /\ (pc = "failed" => err.kind = "TimeoutExceeded")

\* C7: when the ISBN-label query and the digit-pattern query both match
\* nothing, the run ends in failure; it never passes.
C7_BothEmptyFails ==
  /\ []BothEmptySafe
  /\ (pc = "running" /\ BothEmpty) ~> (~BothEmpty \/ pc = "failed")

\* C7 witness: the title and "Author" checks passed, nothing matched either
\* pattern, and the run failed at the ISBN stage
C7_Witness ==
  /\ pc = "failed"
  /\ ~hist.isbnSeen
  /\ ~hist.digitsSeen
  /\ err.cmd \in {"isbn", "digits"}
  /\ err.last = "absent"

\* while the title was never visible the run is at the title condition, or
\* has failed on it with TimeoutExceeded after its timeout
TitleNeverSeenSafe ==
  (method = "validateDetailBook" /\ ~hist.titleSeen) =>
    /\ pc \in {"running", "failed"}
    /\ LogCmds = << "title" >>
    /\ el = "none"
    /\ (pc = "failed" =>
          /\ err.kind = "TimeoutExceeded"
          /\ err.cmd = "title"
          /\ err.pred = "be.visible"
          /\ elapsed > 10000)

\* C8: when the title never becomes visible, the run fails with
\* TimeoutExceeded on the title condition, and no later condition is begun
\* or reported.
C8_TitleTimeout ==
  /\ []TitleNeverSeenSafe
  /\ (pc = "running" /\ method = "validateDetailBook" /\ ~hist.titleSeen)
       ~> (hist.titleSeen \/ pc = "failed")

\* C8 witness: the run failed on the title, which was never visible
C8_Witness ==
  /\ pc = "failed"
  /\ ~hist.titleSeen
  /\ err.cmd = "title"
  /\ dom.author = "visible"
  /\ dom.isbn = "visible"

\* C9: the conditions are begun in the order title, "Author", ISBN-label
\* query, then one of the two assertions, each after the one before it
\* succeeded; the title has the 10 s timeout and is the only one to.
C9_OrderAndTimeouts ==
  method \in {"none", "validateDetailBook"} =>
    /\ \/ \E n \in 0 .. 4 : LogCmds = SubSeq(<< "title", "author", "isbn", "wrap" >>, 1, n)
       \/ LogCmds = << "title", "author", "isbn", "digits" >>
    /\ \A k \in 1 .. Len(log) :
         /\ (log[k].cmd = "title" => log[k].timeout = 10000)
         /\ (log[k].cmd # "title" => log[k].timeout = DefaultTimeout /\ log[k].timeout < 10000)
    /\ (pc = "running" /\ Head(queue) # "then" => timeout = log[Len(log)].timeout)
    /\ \/ okCmds = LogCmds
       \/ pc # "idle" /\ okCmds = SubSeq(LogCmds, 1, Len(log) - 1)
    /\ (pc = "passed" => okCmds = LogCmds)

\* C9 witness: the title check succeeded later than the default timeout
\* would have allowed, and "Author" is being checked
C9_Witness ==
  /\ pc = "running"
  /\ phase = "yield"
  /\ Head(queue) = "title"
  /\ elapsed > DefaultTimeout + PollInterval
  /\ timeout = 10000

\* a check has just succeeded and carries subject
Yielded == pc = "running" /\ phase = "yield"

\* a check that succeeds carries the result of the first poll that
\* satisfied its predicate, and a check whose predicate holds since before
\* the timeout elapsed does not fail
FirstSatisfyingSafe ==
  /\ (Yielded =>
        /\ Satisfies(PredOf(Head(queue), existing), subject)
        /\ subject = QueryOf(Head(queue), dom, captured)
        /\ nSat = 1)
  /\ (pc = "running" /\ phase # "yield" => nSat = 0)
  /\ (pc = "failed" =>
        /\ nSat = 0
        /\ ~Satisfies(err.pred, err.last)
        /\ ~(trueSince # -1 /\ trueSince < timeout))

\* the predicate of the check being polled holds on the document
Holding == pc = "running" /\ phase # "yield" /\ HoldsNow(queue, dom, captured)

\* C10: a check whose predicate becomes true before the timeout elapses
\* (and stays true) returns success, and the result it carries is the first
\* query result it observed that satisfies the predicate.
C10_FirstSatisfying ==
  /\ []FirstSatisfyingSafe
  /\ Holding ~> (Yielded \/ ~Holding)

\* C10 witness: a check succeeded at a later poll, on a predicate that
\* became true during a sleep, before the timeout
C10_Witness ==
  /\ Yielded
  /\ Head(queue) = "author"
  /\ trueSince > 0
  /\ trueSince < DefaultTimeout
  /\ elapsed > trueSince
  /\ subject = "visible"

\* the current check is being retried and its predicate does not hold
Unmet ==
  /\ pc = "running"
  /\ phase # "yield"
  /\ Head(queue) # "then"
  /\ ~HoldsNow(queue, dom, captured)

NeverTrueSafe ==
  /\ pc = "failed" =>
       /\ err.kind = "TimeoutExceeded"
       /\ nSat = 0
       /\ timeout <= elapsed
       /\ elapsed <= timeout + PollInterval
  /\ Yielded => trueSince # -1

\* C11: a check whose predicate never becomes true fails with
\* TimeoutExceeded, at an elapsed time of at least the timeout and at most
\* the timeout plus one polling interval; it succeeds only while the predicate
\* holds, so it never reports success for such a predicate.
C11_NeverTrueFails ==
  /\ []NeverTrueSafe
  /\ Unmet ~> ((pc = "running" /\ HoldsNow(queue, dom, captured)) \/ pc = "failed")

\* the Author check failed at the first poll beyond its timeout, its
\* predicate never seen true
C11_Witness ==
  /\ pc = "failed"
  /\ err.cmd = "author"
  /\ err.kind = "TimeoutExceeded"
  /\ ~hist.authorAlways
  /\ nSat = 0
  /\ trueSince = -1
  /\ elapsed > DefaultTimeout

\* the predicate of the current check was false when the check began and has
\* been true since a moment before the timeout
TrueAfterFalse ==
  /\ Holding
  /\ trueSince > 0
  /\ trueSince < timeout

SoonAfterTrueSafe ==
  Yielded => /\ trueSince # -1
             /\ trueSince <= elapsed
             /\ elapsed <= trueSince + PollInterval

\* C12: a check whose predicate is false for a period shorter than the
\* timeout and true from then on returns success, no later than one polling
\* interval after the predicate became true.
C12_SuccessSoonAfterTrue ==
  /\ []SoonAfterTrueSafe
  /\ TrueAfterFalse ~> ((Yielded /\ elapsed <= trueSince + PollInterval) \/ ~Holding)

\* the title became visible after the default timeout had passed, during a
\* sleep, and the check succeeded at the next poll
C12_Witness ==
  /\ Yielded
  /\ Head(queue) = "title"
  /\ trueSince > DefaultTimeout
  /\ elapsed = trueSince + PollInterval
  /\ elapsed <= TitleTimeout

\* a poll is due whose query throws, within the timeout
ThrowDue ==
  /\ pc = "running"
  /\ phase = "poll"
  /\ Head(queue) # "then"
  /\ QueryOf(Head(queue), dom, captured) \in Thrown
  /\ elapsed <= timeout

ThrowRetriedSafe ==
  /\ pc = "failed" => (err.kind = "TimeoutExceeded" /\ elapsed > timeout)
  /\ Yielded => subject \notin Thrown

\* the poll of a throwing query within the timeout (the step from ThrowDue
\* that is not a change of the document) ends in the sleep before the retry
ThrowRetriedStep ==
  (ThrowDue /\ dom' = dom /\ captured' = captured) =>
    /\ pc' = "running"
    /\ phase' = "sleep"
    /\ queue' = queue
    /\ err' = NoError
    /\ threw'

\* C13: a query that throws counts as a predicate not yet satisfied: the
\* check sleeps one interval and retries, the exception never ends the run
\* before the timeout, and a check that met a throw ends either in success,
\* on a query that returned, or in TimeoutExceeded.
C13_ThrowIsRetried ==
  /\ []ThrowRetriedSafe
  /\ [][ThrowRetriedStep]_vars
  /\ (pc = "running" /\ threw) ~> (Yielded \/ pc = "failed")

\* the query for "Author" threw during a re-rendering and a later retry of
\* it succeeded
C13_Witness ==
  /\ Yielded
  /\ threw
  /\ Head(queue) = "author"
  /\ subject = "visible"
  /\ elapsed > 0

\* a poll is due that finds the predicate unmet and the timeout exceeded
TimeoutDue ==
  /\ Unmet
  /\ phase = "poll"
  /\ elapsed > timeout

ErrorSurfacesSafe ==
  /\ pc = "failed" =>
       /\ err.kind = "TimeoutExceeded"
       /\ err.cmd = Head(queue)
       /\ err.pred = PredOf(err.cmd, existing)
       /\ err.last = QueryOf(err.cmd, dom, captured)
  /\ err # NoError => pc = "failed"
  /\ pc = "passed" => okCmds = LogCmds
  /\ Yielded => okCmds = LogCmds

\* the poll that finds the timeout exceeded (the step from TimeoutDue that
\* is not a change of the document) fails the run, and a failed run stays
\* failed with the error it has
ErrorSurfacesStep ==
  /\ (TimeoutDue /\ dom' = dom /\ captured' = captured) =>
       (pc' = "failed" /\ err'.kind = "TimeoutExceeded")
  /\ pc = "failed" => (pc' = "failed" /\ err' = err)

\* C14: the TimeoutExceeded of a check carries the result of the last
\* query run and the predicate checked; no method of the page object
\* catches it, so the run (the test case calling the method) ends failed and
\* no later command runs.
C14_ErrorSurfaces ==
  /\ []ErrorSurfacesSafe
  /\ [][ErrorSurfacesStep]_vars

\* the ISBN-label query timed out on a document being re-rendered
C14_Witness ==
  /\ pc = "failed"
  /\ existing
  /\ err.kind = "TimeoutExceeded"
  /\ err.cmd = "isbn"
  /\ err.pred = "exist"
  /\ err.last = "throws"
  /\ okCmds = << "title", "author" >>

\* a check is pending: begun, neither succeeded nor timed out
Checking ==
  /\ pc = "running"
  /\ phase # "yield"
  /\ Head(queue) # "then"

TerminationSafe ==
  /\ pc = "failed" => (err.kind = "TimeoutExceeded" /\ elapsed > timeout)
  /\ (Checking /\ phase = "sleep") => elapsed <= timeout
  /\ Checking => elapsed <= timeout + PollInterval

\* nothing of the run moves once a check has timed out
TerminationStep == pc = "failed" => pageVars' = pageVars

C19_ThreeInOrder ==
  method = "validateElementsScreen" =>
    /\ \E n \in 1 .. 3 : LogCmds = SubSeq(<< "bookStore", "input", "table" >>, 1, n)
    /\ \/ okCmds = LogCmds
       \/ okCmds = SubSeq(LogCmds, 1, Len(log) - 1)
    /\ pc = "passed" => okCmds = << "bookStore", "input", "table" >>
    /\ pc = "failed" => (LogCmds = Append(okCmds, err.cmd) /\ Head(queue) = err.cmd)
    /\ Yielded =>
         /\ Head(queue) \in {"bookStore", "input"} => subject = "visible"
         /\ Head(queue) = "table" => subject \in {"hidden", "visible"}
    /\ pc = "failed" =>
         /\ err.cmd \in {"bookStore", "input"} => (err.pred = "be.visible" /\ err.last # "visible")
         /\ err.cmd = "table" => (err.pred = "exist" /\ err.last \in {"absent", "throws"})

\* the run passed on a page whose table is rendered but hidden: the third
\* condition asks for existence only
C19_Witness ==
  /\ method = "validateElementsScreen"
  /\ pc = "passed"
  /\ dom.bookStore = "visible"
  /\ dom.input = "visible"
  /\ dom.table = "hidden"
  /\ LogCmds = << "bookStore", "input", "table" >>

\* what command cmd would get from a query of document d run now; the
\* assertion of the ISBN branch is on the ISBN-labelled element
Fresh(cmd, d) ==
  IF d.rendering THEN "throws"
  ELSE IF cmd = "wrap" THEN d.isbn
  ELSE IF cmd \in {"getInput", "clear", "type"} THEN d.input
  ELSE d[cmd]

\* C22: every assertion evaluates its predicate on the result of a query run
\* against the current document at that retry, the assertion of the ISBN
\* branch included: the result a check succeeded on, and the last result of
\* a check that failed, is what the document shows at that moment.
C22_EveryRetryRequeries ==
  /\ Yielded => subject = Fresh(Head(queue), dom)
  /\ pc = "failed" => err.last = Fresh(err.cmd, dom)

\* C23: inputNameBook clears the search input before typing and makes no
\* assertion: its commands are the query of the input, clear and type; after
\* a call that has passed the content of the input is name, whatever the
\* content was before, so a second call with the same name leaves what the
\* first one left.
C23_ClearThenType ==
  method = "inputNameBook" =>
    /\ \A k \in 1 .. Len(log) : log[k].cmd = << "getInput", "clear", "type" >>[((k - 1) % 3) + 1]
    /\ (Yielded /\ Head(queue) = "clear") => value = << >>
    /\ pc = "passed" =>
         /\ Len(okCmds) = 3 * calls
         /\ value = name
         /\ prior = name => value = prior

\* inputNameBook("ab") was called twice in a row and both calls passed: the
\* second call found "ab" in the input and left "ab"
C23_Witness ==
  /\ method = "inputNameBook"
  /\ pc = "passed"
  /\ calls = 2
  /\ name = << "a", "b" >>
  /\ prior = << "a", "b" >>
  /\ value = << "a", "b" >>

FallbackDeadSafe ==
  (existing /\ method = "validateDetailBook") =>
    /\ el \in {"none", "hidden", "visible"}
    /\ Begun("digits") = 0
    /\ ~hist.isbnSeen =>
         /\ pc # "passed"
         /\ el = "none"
         /\ Begun("wrap") = 0
         /\ (pc = "failed" /\ okCmds = << "title", "author" >>) =>
              (err.cmd = "isbn" /\ err.kind = "TimeoutExceeded")

\* the ISBN-label query is being retried and no ISBN-labelled element has
\* existed since the call
IsbnMissing ==
  /\ existing
  /\ method = "validateDetailBook"
  /\ pc = "running"
  /\ Head(queue) = "isbn"
  /\ ~hist.isbnSeen

Alnum36 == Range(Digits36)

StandardAlphabet ==
  << "0","1","2","3","4","5","6","7","8","9",
     "A","B","C","D","E","F","G","H","I","J","K","L","M","N","O","P","Q","R",
     "S","T","U","V","W","X","Y","Z",
     "a","b","c","d","e","f","g","h","i","j","k","l","m","n","o","p","q","r",
     "s","t","u","v","w","x","y","z" >>

LetrasChars == Range(letras)

\* the number of positions of the alphabet of getRandonCode that hold c
Occurrences(c) == Cardinality({j \in 1 .. Len(letras) : letras[j] = c})

\* the number of positions that hold the character of each position
Positions == [j \in 1 .. Len(letras) |-> Occurrences(letras[j])]

\* the alphabet as C3 states it: "Y" left out, "X" twice, the others once
CensusYX ==
  \A c \in Range(StandardAlphabet) :
    Occurrences(c) = IF c = "Y" THEN 0 ELSE IF c = "X" THEN 2 ELSE 1

\* the alphabet of the source: "Y" and "j" left out, "T" twice, the others once
CensusYjT ==
  /\ Len(letras) = 61
  /\ Range(letras) \subseteq Range(StandardAlphabet)
  /\ \A c \in Range(StandardAlphabet) :
       Occurrences(c) = IF c \in {"Y", "j"} THEN 0 ELSE IF c = "T" THEN 2 ELSE 1

\* getRandonCode has appended the character of index rnum
Emitted == fn = "getRandonCode" /\ i > 0

\* C1: getRandonPassword returns exactly 7 characters, each in [0-9a-z], for
\* every value of Math.random().
C1_PasswordSevenAlnum ==
  (fn = "getRandonPassword" /\ upc = "returned") =>
    (Len(ret) = 7 /\ Range(ret) \subseteq Alnum36)

\* C2: getRandonCode draws from an alphabet of 62 positions in which no
\* character is more likely than another: every character that can be
\* emitted holds the same number of positions.
C2_UniformOver62 ==
  Emitted =>
    /\ Len(letras) = 62
    /\ \A j \in 1 .. Len(letras) : Positions[j] = Occurrences(aleatorio[i])

\* C3 as stated: the alphabet of getRandonCode is the standard one with "Y"
\* left out and "X" twice, every other character once.
C3_OnlyYOmittedXDoubled ==
  Emitted => CensusYX

\* C3 as amended: the alphabet of getRandonCode has 61 positions; it is the
\* standard one with "Y" and "j" left out and "T" twice (once in its own
\* place and once in the place of "Y"); every other character, "X"
\* included, is there once, and the character emitted is the one at rnum.
C3_AlphabetCensus ==
  Emitted =>
    /\ CensusYjT
    /\ aleatorio[i] = letras[rnum + 1]
    /\ aleatorio[i] \notin {"Y", "j"}

\* C3 witness: the second "T", in the place of "Y", has been emitted
C3_Witness ==
  /\ Emitted
  /\ rnum = 34
  /\ aleatorio[i] = "T"
  /\ StandardAlphabet[rnum + 1] = "Y"

\* C4: getRandonCode(n) returns exactly n characters of the alphabet, 6 when
\* called with no argument: every iteration appends exactly one character
\* and the index stays inside the alphabet.
C4_CodeLengthAndAlphabet ==
  (fn = "getRandonCode") =>
    /\ Len(aleatorio) = i
    /\ i <= tamanho
    /\ Range(aleatorio) \subseteq LetrasChars
    /\ (i > 0 => rnum \in 0 .. (Len(letras) - 1))
    /\ (upc = "returned" =>
          /\ Len(ret) = (IF arg = << >> THEN 6 ELSE arg[1])
          /\ Range(ret) \subseteq LetrasChars)

\* C4 witness: a call with no argument has returned 6 characters, the last
\* one drawn with the largest value of Math.random()
C4_Witness ==
  /\ fn = "getRandonCode"
  /\ upc = "returned"
  /\ arg = << >>
  /\ Len(ret) = 6
  /\ rnd = RandomDen - 1
  /\ ret[6] = "z"

\* a call of getRandomPhone has returned
PhoneReturned == fn = "getRandomPhone" /\ upc = "returned"

\* 1 and 99999999999 are both among the values of getRandomPhone
PhoneEnds ==
  /\ \E n \in PhoneDraws : getRandomPhone(n) = << 0, 0, 1 >>
  /\ \E n \in PhoneDraws : getRandomPhone(n) = PhoneRange

\* C16: getRandomPhone returns an integer n with 1 <= n <= 99999999999 for
\* every value of Math.random(): never 0, never 100000000000 (which would be
\* << 1000, 0, 0 >>); 1 and 99999999999 are both returned for some value.
C16_PhoneInRange ==
  /\ PhoneReturned =>
       /\ Len(ret) = 3
       /\ ret[1] \in 0 .. 999
       /\ ret[2] \in 0 .. 9999
       /\ ret[3] \in 0 .. 9999
       /\ ret # << 0, 0, 0 >>
  /\ PhoneEnds

\* the largest double below 1 was drawn and 99999999999 returned
C16_Witness ==
  /\ PhoneReturned
  /\ rnd = 0 - 1
  /\ ret = PhoneRange

\* a call of screenshot has returned
ScreenshotReturned == fn = "screenshot" /\ upc = "returned"

DecimalDigits == {Digits36[k] : k \in 1 .. 10}

\* the number written by the decimal digits of f from position a to b
RECURSIVE NumberAt(_, _, _)
NumberAt(f, a, b) ==
  IF b < a THEN 0
  ELSE 10 * NumberAt(f, a, b - 1) + (CHOOSE k \in 0 .. 9 : Digits36[k + 1] = f[b])

\* C17: the name screenshot builds has the form YYYY-MM-DD_HH-mm-ss: 19
\* characters, digits except for '-' at 5, 8, 14, 17 and '_' at 11; year,
\* month (counted from 1), day, hour, minute and second in that order, each
\* but the year written in exactly two digits; no ':' and no space.
C17_TimestampFormat ==
  ScreenshotReturned =>
    \A k \in 1 .. Len(shots) :
      LET f == shots[k]
      IN  /\ Len(f) = 19
          /\ \A j \in {5, 8, 14, 17} : f[j] = "-"
          /\ f[11] = "_"
          /\ \A j \in (1 .. 19) \ {5, 8, 11, 14, 17} : f[j] \in DecimalDigits
          /\ NumberAt(f, 1, 4) = clock.y
          /\ NumberAt(f, 6, 7) = clock.mo + 1
          /\ NumberAt(f, 9, 10) = clock.d
          /\ NumberAt(f, 12, 13) = clock.h
          /\ NumberAt(f, 15, 16) = clock.mi
          /\ NumberAt(f, 18, 19) = clock.s
          /\ ":" \notin Range(f)
          /\ " " \notin Range(f)

\* 9 September 2024, 09:09:09: every field but the year needs its zero
C17_Witness ==
  /\ ScreenshotReturned
  /\ clock = [y |-> 2024, mo |-> 8, d |-> 9, h |-> 9, mi |-> 9, s |-> 9]
  /\ shots = << << "2","0","2","4","-","0","9","-","0","9","_","0","9","-","0","9","-","0","9" >> >>

\* C18 as stated: each call of screenshot returns the formatted string and
\* hands that same string to cy.screenshot, once.
C18_ReturnsTheName ==
  ScreenshotReturned =>
    /\ Len(shots) = 1
    /\ retType = "string"
    /\ ret = shots[1]

\* what a call of screenshot leaves as it was
ScreenshotFrame ==
  (fn = "none" /\ fn' = "screenshot") =>
    /\ UNCHANGED << rnd, arg, tamanho, i, rnum, aleatorio >>
    /\ UNCHANGED pageVars

ScreenshotEffect ==
  ScreenshotReturned =>
    /\ shots = << dateTimeCurrent(clock) >>
    /\ retType = "undefined"
    /\ ret = << >>

\* C18: each call of screenshot hands the formatted name to cy.screenshot
\* exactly once and returns undefined to its caller; it changes nothing else.
C18_ScreenshotEffect ==
  /\ []ScreenshotEffect
  /\ [][ScreenshotFrame]_vars

\* a call on the last second of 9999 has returned: one screenshot, nothing
\* returned
C18_Witness ==
  /\ ScreenshotReturned
  /\ clock = [y |-> 9999, mo |-> 11, d |-> 31, h |-> 23, mi |-> 59, s |-> 59]
  /\ Len(shots) = 1
  /\ retType = "undefined"

\* the three random functions
RandomFns == {"getRandomPhone", "getRandonPassword", "getRandonCode"}

TotalSafe ==
  /\ upc \in {"idle", "loop", "returned"}
  /\ (upc = "loop" => (fn = "getRandonCode" /\ i <= tamanho))
  /\ (upc = "returned" /\ fn \in RandomFns) =>
       /\ retType = (IF fn = "getRandomPhone" THEN "number" ELSE "string")
       /\ (fn = "getRandonCode" /\ arg = << 0 >>) => ret = << >>

\* a call of getRandomPhone or getRandonPassword returns in one step; the
\* loop of getRandonCode either runs one more of its tamanho iterations or,
\* these done, returns
TotalStep ==
  /\ (upc = "idle" /\ fn' \in {"getRandomPhone", "getRandonPassword"}) => upc' = "returned"
  /\ (upc = "idle" /\ fn' = "getRandonCode") => (upc' = "loop" /\ i' = 0)
  /\ upc = "loop" =>
       \/ i < tamanho /\ upc' = "loop" /\ i' = i + 1 /\ tamanho' = tamanho
       \/ i = tamanho /\ upc' = "returned"

\* C21: getRandomPhone, getRandonPassword and getRandonCode never raise an
\* error: for every draw and every argument (length 0 and the omitted
\* argument included) the call returns a value, getRandonCode after exactly
\* tamanho iterations, and getRandonCode(0) returns the empty string.
C21_RandomFunctionsTotal ==
  /\ []TotalSafe
  /\ [][TotalStep]_vars

\* getRandonCode(0) has returned the empty string without a draw
C21_Witness ==
  /\ fn = "getRandonCode"
  /\ upc = "returned"
  /\ arg = << 0 >>
  /\ retType = "string"
  /\ ret = << >>
  /\ i = 0

\* the reading a filename of the form YYYY-MM-DD_HH-mm-ss stands for
Decode(f) ==
  [ y  |-> NumberAt(f, 1, 4),
    mo |-> NumberAt(f, 6, 7) - 1,
    d  |-> NumberAt(f, 9, 10),
    h  |-> NumberAt(f, 12, 13),
    mi |-> NumberAt(f, 15, 16),
    s  |-> NumberAt(f, 18, 19) ]

\* C25: screenshot reads the clock once and takes the six fields of the
\* filename from that reading, the month written as 01..12; the filename
\* determines the reading to the second, so readings that differ in any
\* field give different filenames, and a call at the same second as the call
\* before it gives the same filename.
C25_NameDeterminesSecond ==
  ScreenshotReturned =>
    /\ Len(shots) = 1
    /\ Len(shots[1]) = 19
    /\ Decode(shots[1]) = clock
    /\ NumberAt(shots[1], 6, 7) \in 1 .. 12
    /\ lastShot # NoShot => (shots[1] = lastShot.name <=> clock = lastShot.clock)

\* two calls in a row within the second 2024-01-11 00:00:00 gave the same
\* filename
C25_Witness ==
  /\ ScreenshotReturned
  /\ clock = [y |-> 2024, mo |-> 0, d |-> 11, h |-> 0, mi |-> 0, s |-> 0]
  /\ lastShot.clock = clock
  /\ lastShot.name = shots[1]

====
